---- MODULE Spec2Model ----
(***************************************************************************)
(* Model of healthcare-api-rust/src/main.rs: the request handlers for      *)
(* patients, appointments and prescriptions over one SQLite store.         *)
(*                                                                         *)
(* Every SQL statement is one atomic step of the store.  A handler that    *)
(* issues several statements is a sequence of steps, one per statement,    *)
(* with the other in-flight requests free to run between them (the         *)
(* handlers are async and no handler opens a transaction).                 *)
(*                                                                         *)
(* Option<T> is modelled as a sequence of length 0 (None) or 1 (Some).     *)
(* Instants are whole numbers of days; their RFC 3339 text (to_rfc3339,    *)
(* always in UTC) is in one-to-one, order-preserving correspondence with   *)
(* the instant, so a timestamp column holds the instant.                   *)
(* The store is opened with sqlx's default connect options, under which    *)
(* SQLite enforces the FOREIGN KEY clauses of the schema.                  *)
(***************************************************************************)
EXTENDS Integers, Sequences, FiniteSets, TLC

VARIABLES patients, appointments, prescriptions, seq, clock, req, nreq

vars == <<patients, appointments, prescriptions, seq, clock, req, nreq>>

(***************************************************************************)
(* Bounds of the model.                                                    *)
(***************************************************************************)
MaxRequests == 2   \* requests accepted in one behaviour, after those that built the initial store

Requests == {1, 2}   \* slots of the requests that can be in flight together

(***************************************************************************)
(* Option, i32 and the response envelope.                                  *)
(***************************************************************************)
None == <<>>
Some(x) == <<x>>
unwrap(o) == o[1]
unwrap_or(o, d) == IF o # None THEN o[1] ELSE d
or_else(o, p) == IF o # None THEN o ELSE p

I32Max == 2147483647
I32Min == -2147483647 - 1

ApiResponse(success, data, message) ==
  [success |-> success, data |-> data, message |-> message]

HttpResponse(status, body) == [status |-> status, body |-> body]

Created(row, msg) == HttpResponse(201, Some(ApiResponse(TRUE, Some(row), Some(msg))))
OkRow(row, msg) == HttpResponse(200, Some(ApiResponse(TRUE, Some(row), msg)))
OkList(rows) == HttpResponse(200, Some(ApiResponse(TRUE, Some(rows), None)))
BadRequest(msg) == HttpResponse(400, Some(ApiResponse(FALSE, None, Some(msg))))
NotFound(msg) == HttpResponse(404, Some(ApiResponse(FALSE, None, Some(msg))))
NoContent == HttpResponse(204, None)

(***************************************************************************)
(* The store: tables as functions from id to row, and the statements the   *)
(* handlers execute on them.                                               *)
(***************************************************************************)
Put(rows, id, row) == [i \in DOMAIN rows \cup {id} |-> IF i = id THEN row ELSE rows[i]]

\* Variant: the id is one more than the number of rows of the table.
NextId_count(table) ==
  1 + Cardinality(DOMAIN (CASE table = "patients" -> patients
                            [] table = "appointments" -> appointments
                            [] table = "prescriptions" -> prescriptions))

\* id INTEGER PRIMARY KEY AUTOINCREMENT: one more than the largest id the
\* table ever held (sqlite_sequence), never an id of a deleted row.
NextId(table) == seq[table] + 1

\* Variant: the column is not declared UNIQUE.
EmailTaken_never(email, except) == FALSE

\* email TEXT UNIQUE: some row other than `except` holds the email.
EmailTaken(email, except) ==
  \E i \in DOMAIN patients : i # except /\ patients[i].email = email

\* Variant: the foreign key is not enforced.
ForeignKeyOk_always(patient_id) == TRUE

\* FOREIGN KEY (patient_id) REFERENCES patients(id), checked by the statement.
ForeignKeyOk(patient_id) == patient_id \in DOMAIN patients

\* Variant: the foreign key is declared without ON DELETE CASCADE.
CascadeDelete_none(rows, id) == rows

\* ON DELETE CASCADE: the rows of a dependent table left by the delete of patient id.
CascadeDelete(rows, id) ==
  [i \in {j \in DOMAIN rows : rows[j].patient_id # id} |-> rows[i]]

\* DELETE FROM t WHERE id = ?
DeleteRow(rows, id) == [i \in DOMAIN rows \ {id} |-> rows[i]]

\* Variant: the statement reports a row whether or not it found one.
rows_affected_one(rows, id) == 1

\* SqliteQueryResult::rows_affected of a DELETE ... WHERE id = ?
rows_affected(rows, id) == IF id \in DOMAIN rows THEN 1 ELSE 0

\* Variant: the statement has no WHERE clause and returns the first row.
fetch_optional_first(rows, id) ==
  IF DOMAIN rows # {}
  THEN Some(rows[CHOOSE i \in DOMAIN rows : \A j \in DOMAIN rows : i <= j])
  ELSE None

\* SELECT * FROM t WHERE id = ?  with fetch_optional
fetch_optional(rows, id) == IF id \in DOMAIN rows THEN Some(rows[id]) ELSE None

(***************************************************************************)
(* Request bodies the clients send.                                        *)
(***************************************************************************)
CreatePatientInputs ==
  { [first_name |-> "Ann", last_name |-> "Lee", email |-> "ann@x.org",
     phone |-> "555-0000", date_of_birth |-> "1980-01-01",
     address |-> None, medical_history |-> None, blood_type |-> None],
    [first_name |-> "Cy", last_name |-> "Orr", email |-> "cy@x.org",
     phone |-> "555-0002", date_of_birth |-> "1990-03-03",
     address |-> Some("1 Main St"), medical_history |-> None,
     blood_type |-> Some("A+")] }

NoPatientUpdates ==
  [first_name |-> None, last_name |-> None, email |-> None, phone |-> None,
   address |-> None, medical_history |-> None, blood_type |-> None]

UpdatePatientInputs ==
  { NoPatientUpdates,
    [NoPatientUpdates EXCEPT !.phone = Some("555-1111")],
    [NoPatientUpdates EXCEPT !.email = Some("bob@x.org"), !.address = Some("")] }

PatientIds == {1, 3}

(***************************************************************************)
(* Rows the handlers write.                                                *)
(***************************************************************************)
\* Variant: updated_at is left to a later update and bound as the epoch.
NewPatient_epoch(id, p, now) ==
  [id |-> id, first_name |-> p.first_name, last_name |-> p.last_name,
   email |-> p.email, phone |-> p.phone, date_of_birth |-> p.date_of_birth,
   address |-> p.address, medical_history |-> p.medical_history,
   blood_type |-> p.blood_type, created_at |-> now, updated_at |-> 0]

\* INSERT INTO patients (...) VALUES (...) of create_patient
NewPatient(id, p, now) ==
  [id |-> id, first_name |-> p.first_name, last_name |-> p.last_name,
   email |-> p.email, phone |-> p.phone, date_of_birth |-> p.date_of_birth,
   address |-> p.address, medical_history |-> p.medical_history,
   blood_type |-> p.blood_type, created_at |-> now, updated_at |-> now]

\* Variant: the nullable columns are bound without .or(existing).
MergePatient_blank(patient, updates, now) ==
  [patient EXCEPT
     !.first_name = unwrap_or(updates.first_name, patient.first_name),
     !.last_name = unwrap_or(updates.last_name, patient.last_name),
     !.email = unwrap_or(updates.email, patient.email),
     !.phone = unwrap_or(updates.phone, patient.phone),
     !.address = updates.address,
     !.medical_history = updates.medical_history,
     !.blood_type = updates.blood_type,
     !.updated_at = now]

\* Variant: updated_at is not among the columns bound.
MergePatient_unstamped(patient, updates, now) ==
  [patient EXCEPT
     !.first_name = unwrap_or(updates.first_name, patient.first_name),
     !.last_name = unwrap_or(updates.last_name, patient.last_name),
     !.email = unwrap_or(updates.email, patient.email),
     !.phone = unwrap_or(updates.phone, patient.phone),
     !.address = or_else(updates.address, patient.address),
     !.medical_history = or_else(updates.medical_history, patient.medical_history),
     !.blood_type = or_else(updates.blood_type, patient.blood_type)]

\* The values update_patient binds to UPDATE patients SET ... WHERE id = ?
MergePatient(patient, updates, now) ==
  [patient EXCEPT
     !.first_name = unwrap_or(updates.first_name, patient.first_name),
     !.last_name = unwrap_or(updates.last_name, patient.last_name),
     !.email = unwrap_or(updates.email, patient.email),
     !.phone = unwrap_or(updates.phone, patient.phone),
     !.address = or_else(updates.address, patient.address),
     !.medical_history = or_else(updates.medical_history, patient.medical_history),
     !.blood_type = or_else(updates.blood_type, patient.blood_type),
     !.updated_at = now]

\* Variant: created_at is in the SET list, bound like updated_at.
UpdatePatientRow_restamp(row, values) ==
  [row EXCEPT
     !.first_name = values.first_name, !.last_name = values.last_name,
     !.email = values.email, !.phone = values.phone, !.address = values.address,
     !.medical_history = values.medical_history, !.blood_type = values.blood_type,
     !.created_at = values.updated_at, !.updated_at = values.updated_at]

\* UPDATE t SET <columns> WHERE id = ?: the SET columns of `values` replace
\* those of the stored row; id and the columns not named keep the stored value.
UpdatePatientRow(row, values) ==
  [row EXCEPT
     !.first_name = values.first_name, !.last_name = values.last_name,
     !.email = values.email, !.phone = values.phone, !.address = values.address,
     !.medical_history = values.medical_history, !.blood_type = values.blood_type,
     !.updated_at = values.updated_at]

(***************************************************************************)
(* Appointments: bodies and rows.  appointment_date is free text, and the  *)
(* list orders it as text: Collate gives the position of a text among the  *)
(* texts of the model in SQLite's BINARY collation.                        *)
(***************************************************************************)
TextOrder == <<"2027-01-10", "2027-02-01", "2027-03-15">>

Collate(text) == CHOOSE i \in 1 .. Len(TextOrder) : TextOrder[i] = text

CreateAppointmentInputs ==
  { [patient_id |-> 1, doctor_name |-> "Dr. Kim", appointment_date |-> "2027-03-15",
     duration_minutes |-> 45, reason |-> "checkup", notes |-> None],
    [patient_id |-> 3, doctor_name |-> "Dr. Roe", appointment_date |-> "2027-01-10",
     duration_minutes |-> 0, reason |-> "x-ray", notes |-> Some("fasting")] }

NoAppointmentUpdates ==
  [doctor_name |-> None, appointment_date |-> None, duration_minutes |-> None,
   status |-> None, reason |-> None, notes |-> None]

UpdateAppointmentInputs ==
  { NoAppointmentUpdates,
    [NoAppointmentUpdates EXCEPT !.status = Some("completed"),
                                 !.duration_minutes = Some(0)],
    [NoAppointmentUpdates EXCEPT !.appointment_date = Some("2027-02-01"),
                                 !.reason = Some(""), !.notes = Some("")] }

AppointmentIds == {1, 3}

\* Variant: the status literal of the INSERT is 'pending'.
NewAppointment_pending(id, a, now) ==
  [id |-> id, patient_id |-> a.patient_id, doctor_name |-> a.doctor_name,
   appointment_date |-> a.appointment_date, duration_minutes |-> a.duration_minutes,
   status |-> "pending", reason |-> a.reason, notes |-> a.notes,
   created_at |-> now, updated_at |-> now]

\* INSERT INTO appointments (...) VALUES (?, ?, ?, ?, 'scheduled', ?, ?, ?, ?)
NewAppointment(id, a, now) ==
  [id |-> id, patient_id |-> a.patient_id, doctor_name |-> a.doctor_name,
   appointment_date |-> a.appointment_date, duration_minutes |-> a.duration_minutes,
   status |-> "scheduled", reason |-> a.reason, notes |-> a.notes,
   created_at |-> now, updated_at |-> now]

\* Variant: an absent duration_minutes is bound as zero (unwrap_or_default).
MergeAppointment_zero(appointment, updates, now) ==
  [appointment EXCEPT
     !.doctor_name = unwrap_or(updates.doctor_name, appointment.doctor_name),
     !.appointment_date = unwrap_or(updates.appointment_date, appointment.appointment_date),
     !.duration_minutes = unwrap_or(updates.duration_minutes, 0),
     !.status = unwrap_or(updates.status, appointment.status),
     !.reason = unwrap_or(updates.reason, appointment.reason),
     !.notes = or_else(updates.notes, appointment.notes),
     !.updated_at = now]

\* The values update_appointment binds to UPDATE appointments SET ... WHERE id = ?
MergeAppointment(appointment, updates, now) ==
  [appointment EXCEPT
     !.doctor_name = unwrap_or(updates.doctor_name, appointment.doctor_name),
     !.appointment_date = unwrap_or(updates.appointment_date, appointment.appointment_date),
     !.duration_minutes = unwrap_or(updates.duration_minutes, appointment.duration_minutes),
     !.status = unwrap_or(updates.status, appointment.status),
     !.reason = unwrap_or(updates.reason, appointment.reason),
     !.notes = or_else(updates.notes, appointment.notes),
     !.updated_at = now]

\* Variant: created_at is in the SET list, bound like updated_at.
UpdateAppointmentRow_restamp(row, values) ==
  [row EXCEPT
     !.doctor_name = values.doctor_name, !.appointment_date = values.appointment_date,
     !.duration_minutes = values.duration_minutes, !.status = values.status,
     !.reason = values.reason, !.notes = values.notes,
     !.created_at = values.updated_at, !.updated_at = values.updated_at]

UpdateAppointmentRow(row, values) ==
  [row EXCEPT
     !.doctor_name = values.doctor_name, !.appointment_date = values.appointment_date,
     !.duration_minutes = values.duration_minutes, !.status = values.status,
     !.reason = values.reason, !.notes = values.notes,
     !.updated_at = values.updated_at]

(***************************************************************************)
(* Prescriptions: bodies, the expiry computation and rows.                 *)
(***************************************************************************)
GraceDays == 90

\* First and last day of chrono's DateTime<Utc>, in days from 1970-01-01.
ChronoMinDay == -96465293
ChronoMaxDay == 95026236

CreatePrescriptionInputs ==
  { [patient_id |-> 1, medication_name |-> "Amoxil", dosage |-> "500mg",
     frequency |-> "3/day", duration_days |-> 10, prescribing_doctor |-> "Dr. Kim",
     instructions |-> None, refills_remaining |-> 0],
    [patient_id |-> 1, medication_name |-> "Zocor", dosage |-> "20mg",
     frequency |-> "1/day", duration_days |-> I32Max, prescribing_doctor |-> "Dr. Kim",
     instructions |-> None, refills_remaining |-> 1],
    [patient_id |-> 1, medication_name |-> "Zocor", dosage |-> "20mg",
     frequency |-> "1/day", duration_days |-> I32Max - GraceDays,
     prescribing_doctor |-> "Dr. Kim", instructions |-> None, refills_remaining |-> 1],
    [patient_id |-> 3, medication_name |-> "Advil", dosage |-> "200mg",
     frequency |-> "2/day", duration_days |-> -100, prescribing_doctor |-> "Dr. Roe",
     instructions |-> Some("with food"), refills_remaining |-> 2] }

PrescriptionIds == {1, 3}

\* a + b on i32: the results the build can produce.  When the sum leaves the
\* i32 range the operation panics (overflow checks on) or wraps (checks off).
add_i32(a, b) ==
  IF b >= 0 /\ a > I32Max - b
  THEN {None, Some((a - I32Max - 1) + (b - I32Max - 1))}
  ELSE IF b < 0 /\ a < I32Min - b
  THEN {None, Some((a - I32Min) + (b - I32Min))}
  ELSE {Some(a + b)}

\* now + chrono::Duration::days(days): None when the sum is no DateTime<Utc>
\* (the operator + panics).
add_days(now, days) ==
  IF ChronoMinDay - now <= days /\ days <= ChronoMaxDay - now
  THEN Some(now + days) ELSE None

\* expiry of create_prescription: the outcomes of
\* now + Duration::days((duration_days + 90) as i64); None is a panic.
Expiry(now, duration_days) ==
  { IF days = None THEN None ELSE add_days(now, unwrap(days)) :
      days \in add_i32(duration_days, GraceDays) }

\* INSERT INTO prescriptions (...) VALUES (...) of create_prescription
NewPrescription(id, p, issued, expiry) ==
  [id |-> id, patient_id |-> p.patient_id, medication_name |-> p.medication_name,
   dosage |-> p.dosage, frequency |-> p.frequency, duration_days |-> p.duration_days,
   prescribing_doctor |-> p.prescribing_doctor, instructions |-> p.instructions,
   issued_date |-> issued, expiry_date |-> expiry,
   refills_remaining |-> p.refills_remaining, created_at |-> issued]

(***************************************************************************)
(* Requests.  A request is at pc "done" once its response is written and   *)
(* at pc "panicked" when an unwrap() hit an Err: the handler unwinds and   *)
(* no response envelope is produced.  fault records that the statement the *)
(* request ended on returned a store fault: an sqlx::Error that is neither  *)
(* a constraint violation nor RowNotFound (the pool timed out, the file     *)
(* could not be read or written, the database was locked).                  *)
(***************************************************************************)
Idle ==
  [op |-> "none", pc |-> "done", now |-> 0, id |-> 0, body |-> None,
   existing |-> None, expiry |-> None, resp |-> None, fault |-> FALSE]

Ended(r) == req[r].pc \in {"done", "panicked"}

\* A new request takes the first slot whose request has ended.
Free(r) ==
  /\ nreq < MaxRequests
  /\ Ended(r)
  /\ \A q \in Requests : q < r => ~Ended(q)

Begin(r, op, pc, id, body) ==
  /\ Free(r)
  /\ req' = [req EXCEPT ![r] = [Idle EXCEPT !.op = op, !.pc = pc, !.now = clock,
                                            !.id = id, !.body = body]]
  /\ clock' = clock + 1
  /\ nreq' = nreq + 1

Finish(r, resp) == req' = [req EXCEPT ![r].pc = "done", ![r].resp = Some(resp)]

Panic(r) == req' = [req EXCEPT ![r].pc = "panicked"]

At(r, op, pc) == req[r].op = op /\ req[r].pc = pc

(***************************************************************************)
(* Patient handlers.                                                       *)
(***************************************************************************)
\* create_patient: now = Utc::now(), then the INSERT is issued.
create_patient_start(r, p) ==
  /\ Begin(r, "create_patient", "insert", 0, Some(p))
  /\ UNCHANGED <<patients, appointments, prescriptions, seq>>

\* create_patient: the INSERT and the match on its result.
create_patient_insert(r) ==
  /\ At(r, "create_patient", "insert")
  /\ LET p == unwrap(req[r].body)
         id == NextId("patients")
     IN IF EmailTaken(p.email, 0)
        THEN /\ Finish(r, BadRequest(<<"Error creating patient: ",
                                       "UNIQUE constraint failed: patients.email">>))
             /\ UNCHANGED <<patients, seq>>
        ELSE /\ patients' = Put(patients, id, NewPatient(id, p, req[r].now))
             /\ seq' = [seq EXCEPT !.patients = id]
             /\ req' = [req EXCEPT ![r].pc = "reread", ![r].id = id]
  /\ UNCHANGED <<appointments, prescriptions, clock, nreq>>

\* create_patient: SELECT ... fetch_one(...).unwrap() and the 201 response.
create_patient_reread(r) ==
  /\ At(r, "create_patient", "reread")
  /\ IF req[r].id \in DOMAIN patients
     THEN Finish(r, Created(patients[req[r].id], "Patient created successfully"))
     ELSE Panic(r)
  /\ UNCHANGED <<patients, appointments, prescriptions, seq, clock, nreq>>

\* Variant: the ORDER BY has no DESC and sorts ascending.
SortedDesc_asc(ids, key) ==
  \A i, j \in 1 .. Len(ids) : i < j => key[ids[i]] <= key[ids[j]]

\* get_patients: SELECT * FROM patients ORDER BY created_at DESC
SortedDesc(ids, key) ==
  \A i, j \in 1 .. Len(ids) : i < j => key[ids[i]] >= key[ids[j]]

\* The results fetch_all can return: every row once, in an order that is
\* descending in the sort key (rows of equal key in either order).
Listings(rows, key) ==
  LET n == Cardinality(DOMAIN rows)
      orders == { ids \in [1 .. n -> DOMAIN rows] :
                    /\ \A i, j \in 1 .. n : i # j => ids[i] # ids[j]
                    /\ SortedDesc(ids, key) }
  IN { [k \in 1 .. n |-> rows[ids[k]]] : ids \in orders }

created_at_of(rows) == [i \in DOMAIN rows |-> rows[i].created_at]

get_patients(r) ==
  /\ Free(r)
  /\ \E s \in Listings(patients, created_at_of(patients)) :
       req' = [req EXCEPT ![r] = [Idle EXCEPT !.op = "get_patients",
                                             !.resp = Some(OkList(s))]]
  /\ nreq' = nreq + 1
  /\ UNCHANGED <<patients, appointments, prescriptions, seq, clock>>

\* The match of the get handlers on the fetched Option.
GetResponse(found, missing) ==
  IF found # None THEN OkRow(unwrap(found), None) ELSE NotFound(missing)

get_patient(r, id) ==
  /\ Free(r)
  /\ req' = [req EXCEPT ![r] =
       [Idle EXCEPT !.op = "get_patient", !.id = id,
                    !.resp = Some(GetResponse(fetch_optional(patients, id),
                                              "Patient not found"))]]
  /\ nreq' = nreq + 1
  /\ UNCHANGED <<patients, appointments, prescriptions, seq, clock>>

\* update_patient: now = Utc::now() and the path id, before the first SELECT.
update_patient_start(r, id, u) ==
  /\ Begin(r, "update_patient", "read", id, Some(u))
  /\ UNCHANGED <<patients, appointments, prescriptions, seq>>

\* update_patient: the existence read and the early 404.
update_patient_read(r) ==
  /\ At(r, "update_patient", "read")
  /\ LET existing == fetch_optional(patients, req[r].id)
     IN IF existing = None
        THEN Finish(r, NotFound("Patient not found"))
        ELSE req' = [req EXCEPT ![r].pc = "write", ![r].existing = existing]
  /\ UNCHANGED <<patients, appointments, prescriptions, seq, clock, nreq>>

\* update_patient: UPDATE patients SET ... WHERE id = ? and .unwrap().
update_patient_write(r) ==
  /\ At(r, "update_patient", "write")
  /\ LET id == req[r].id
         values == MergePatient(unwrap(req[r].existing), unwrap(req[r].body), req[r].now)
     IN IF id \notin DOMAIN patients
        THEN /\ req' = [req EXCEPT ![r].pc = "reread"]
             /\ UNCHANGED patients
        ELSE IF EmailTaken(values.email, id)
        THEN /\ Panic(r)
             /\ UNCHANGED patients
        ELSE /\ patients' = Put(patients, id, UpdatePatientRow(patients[id], values))
             /\ req' = [req EXCEPT ![r].pc = "reread"]
  /\ UNCHANGED <<appointments, prescriptions, seq, clock, nreq>>

\* update_patient: SELECT ... fetch_one(...).unwrap() and the 200 response.
update_patient_reread(r) ==
  /\ At(r, "update_patient", "reread")
  /\ IF req[r].id \in DOMAIN patients
     THEN Finish(r, OkRow(patients[req[r].id], Some("Patient updated successfully")))
     ELSE Panic(r)
  /\ UNCHANGED <<patients, appointments, prescriptions, seq, clock, nreq>>

\* The match of the delete handlers on rows_affected.
DeleteResponse(affected, missing) ==
  IF affected > 0 THEN NoContent
  ELSE HttpResponse(404, Some(ApiResponse(FALSE, None, Some(missing))))

\* delete_patient: DELETE FROM patients WHERE id = ?, with the store's cascade.
delete_patient(r, id) ==
  /\ Free(r)
  /\ req' = [req EXCEPT ![r] =
       [Idle EXCEPT !.op = "delete_patient", !.id = id,
                    !.resp = Some(DeleteResponse(rows_affected(patients, id),
                                                 "Patient not found"))]]
  /\ nreq' = nreq + 1
  /\ patients' = DeleteRow(patients, id)
  /\ appointments' = CascadeDelete(appointments, id)
  /\ prescriptions' = CascadeDelete(prescriptions, id)
  /\ UNCHANGED <<seq, clock>>

(***************************************************************************)
(* Appointment handlers.                                                   *)
(***************************************************************************)
create_appointment_start(r, a) ==
  /\ Begin(r, "create_appointment", "insert", 0, Some(a))
  /\ UNCHANGED <<patients, appointments, prescriptions, seq>>

create_appointment_insert(r) ==
  /\ At(r, "create_appointment", "insert")
  /\ LET a == unwrap(req[r].body)
         id == NextId("appointments")
     IN IF ~ForeignKeyOk(a.patient_id)
        THEN /\ Finish(r, BadRequest(<<"Error creating appointment: ",
                                       "FOREIGN KEY constraint failed">>))
             /\ UNCHANGED <<appointments, seq>>
        ELSE /\ appointments' = Put(appointments, id, NewAppointment(id, a, req[r].now))
             /\ seq' = [seq EXCEPT !.appointments = id]
             /\ req' = [req EXCEPT ![r].pc = "reread", ![r].id = id]
  /\ UNCHANGED <<patients, prescriptions, clock, nreq>>

create_appointment_reread(r) ==
  /\ At(r, "create_appointment", "reread")
  /\ IF req[r].id \in DOMAIN appointments
     THEN Finish(r, Created(appointments[req[r].id], "Appointment created successfully"))
     ELSE Panic(r)
  /\ UNCHANGED <<patients, appointments, prescriptions, seq, clock, nreq>>

appointment_date_of(rows) == [i \in DOMAIN rows |-> Collate(rows[i].appointment_date)]

\* get_appointments: SELECT * FROM appointments ORDER BY appointment_date DESC
get_appointments(r) ==
  /\ Free(r)
  /\ \E s \in Listings(appointments, appointment_date_of(appointments)) :
       req' = [req EXCEPT ![r] = [Idle EXCEPT !.op = "get_appointments",
                                             !.resp = Some(OkList(s))]]
  /\ nreq' = nreq + 1
  /\ UNCHANGED <<patients, appointments, prescriptions, seq, clock>>

get_appointment(r, id) ==
  /\ Free(r)
  /\ req' = [req EXCEPT ![r] =
       [Idle EXCEPT !.op = "get_appointment", !.id = id,
                    !.resp = Some(GetResponse(fetch_optional(appointments, id),
                                              "Appointment not found"))]]
  /\ nreq' = nreq + 1
  /\ UNCHANGED <<patients, appointments, prescriptions, seq, clock>>

update_appointment_start(r, id, u) ==
  /\ Begin(r, "update_appointment", "read", id, Some(u))
  /\ UNCHANGED <<patients, appointments, prescriptions, seq>>

update_appointment_read(r) ==
  /\ At(r, "update_appointment", "read")
  /\ LET existing == fetch_optional(appointments, req[r].id)
     IN IF existing = None
        THEN Finish(r, NotFound("Appointment not found"))
        ELSE req' = [req EXCEPT ![r].pc = "write", ![r].existing = existing]
  /\ UNCHANGED <<patients, appointments, prescriptions, seq, clock, nreq>>

\* update_appointment: UPDATE appointments SET ... WHERE id = ? and .unwrap().
\* No column the statement sets carries a constraint the bound values can break.
update_appointment_write(r) ==
  /\ At(r, "update_appointment", "write")
  /\ LET id == req[r].id
         values == MergeAppointment(unwrap(req[r].existing), unwrap(req[r].body),
                                    req[r].now)
     IN /\ appointments' =
             IF id \in DOMAIN appointments
             THEN Put(appointments, id, UpdateAppointmentRow(appointments[id], values))
             ELSE appointments
        /\ req' = [req EXCEPT ![r].pc = "reread"]
  /\ UNCHANGED <<patients, prescriptions, seq, clock, nreq>>

update_appointment_reread(r) ==
  /\ At(r, "update_appointment", "reread")
  /\ IF req[r].id \in DOMAIN appointments
     THEN Finish(r, OkRow(appointments[req[r].id],
                          Some("Appointment updated successfully")))
     ELSE Panic(r)
  /\ UNCHANGED <<patients, appointments, prescriptions, seq, clock, nreq>>

delete_appointment(r, id) ==
  /\ Free(r)
  /\ req' = [req EXCEPT ![r] =
       [Idle EXCEPT !.op = "delete_appointment", !.id = id,
                    !.resp = Some(DeleteResponse(rows_affected(appointments, id),
                                                 "Appointment not found"))]]
  /\ nreq' = nreq + 1
  /\ appointments' = DeleteRow(appointments, id)
  /\ UNCHANGED <<patients, prescriptions, seq, clock>>

(***************************************************************************)
(* Prescription handlers.                                                  *)
(***************************************************************************)
\* create_prescription: now, issued and expiry, computed before the INSERT
\* is issued; a panic in the expiry computation ends the request here.
create_prescription_start(r, p) ==
  /\ Free(r)
  /\ \E e \in Expiry(clock, p.duration_days) :
       req' = [req EXCEPT ![r] =
         [Idle EXCEPT !.op = "create_prescription", !.now = clock, !.body = Some(p),
                      !.expiry = e,
                      !.pc = IF e = None THEN "panicked" ELSE "insert"]]
  /\ clock' = clock + 1
  /\ nreq' = nreq + 1
  /\ UNCHANGED <<patients, appointments, prescriptions, seq>>

create_prescription_insert(r) ==
  /\ At(r, "create_prescription", "insert")
  /\ LET p == unwrap(req[r].body)
         id == NextId("prescriptions")
     IN IF ~ForeignKeyOk(p.patient_id)
        THEN /\ Finish(r, BadRequest(<<"Error creating prescription: ",
                                       "FOREIGN KEY constraint failed">>))
             /\ UNCHANGED <<prescriptions, seq>>
        ELSE /\ prescriptions' =
                  Put(prescriptions, id,
                      NewPrescription(id, p, req[r].now, unwrap(req[r].expiry)))
             /\ seq' = [seq EXCEPT !.prescriptions = id]
             /\ req' = [req EXCEPT ![r].pc = "reread", ![r].id = id]
  /\ UNCHANGED <<patients, appointments, clock, nreq>>

create_prescription_reread(r) ==
  /\ At(r, "create_prescription", "reread")
  /\ IF req[r].id \in DOMAIN prescriptions
     THEN Finish(r, Created(prescriptions[req[r].id],
                            "Prescription created successfully"))
     ELSE Panic(r)
  /\ UNCHANGED <<patients, appointments, prescriptions, seq, clock, nreq>>

issued_date_of(rows) == [i \in DOMAIN rows |-> rows[i].issued_date]

\* get_prescriptions: SELECT * FROM prescriptions ORDER BY issued_date DESC
get_prescriptions(r) ==
  /\ Free(r)
  /\ \E s \in Listings(prescriptions, issued_date_of(prescriptions)) :
       req' = [req EXCEPT ![r] = [Idle EXCEPT !.op = "get_prescriptions",
                                             !.resp = Some(OkList(s))]]
  /\ nreq' = nreq + 1
  /\ UNCHANGED <<patients, appointments, prescriptions, seq, clock>>

get_prescription(r, id) ==
  /\ Free(r)
  /\ req' = [req EXCEPT ![r] =
       [Idle EXCEPT !.op = "get_prescription", !.id = id,
                    !.resp = Some(GetResponse(fetch_optional(prescriptions, id),
                                              "Prescription not found"))]]
  /\ nreq' = nreq + 1
  /\ UNCHANGED <<patients, appointments, prescriptions, seq, clock>>

delete_prescription(r, id) ==
  /\ Free(r)
  /\ req' = [req EXCEPT ![r] =
       [Idle EXCEPT !.op = "delete_prescription", !.id = id,
                    !.resp = Some(DeleteResponse(rows_affected(prescriptions, id),
                                                 "Prescription not found"))]]
  /\ nreq' = nreq + 1
  /\ prescriptions' = DeleteRow(prescriptions, id)
  /\ UNCHANGED <<patients, appointments, seq, clock>>

(***************************************************************************)
(* The initial store.  init_db creates the tables only IF NOT EXISTS, so   *)
(* the service starts on the rows earlier requests left in the database    *)
(* file: two patients, patient 1 owning one appointment and two            *)
(* prescriptions and patient 2 one appointment, all written at instant 0   *)
(* by the create handlers.  clock is the wall clock that Utc::now() reads;  *)
(* each read returns a later instant than the reads before it.             *)
(***************************************************************************)
InitialPatients ==
  LET ann == CHOOSE p \in CreatePatientInputs : p.email = "ann@x.org"
      bob == [first_name |-> "Bob", last_name |-> "Ng", email |-> "bob@x.org",
              phone |-> "555-0001", date_of_birth |-> "1975-02-02",
              address |-> Some("2 Oak Ave"), medical_history |-> Some("asthma"),
              blood_type |-> None]
  IN <<NewPatient(1, ann, 0), NewPatient(2, bob, 0)>>

InitialAppointments ==
  LET a == CHOOSE x \in CreateAppointmentInputs : x.patient_id = 1
  IN <<NewAppointment(1, a, 0),
       NewAppointment(2, [a EXCEPT !.patient_id = 2,
                                   !.appointment_date = "2027-02-01"], 0)>>

InitialPrescriptions ==
  LET p == CHOOSE x \in CreatePrescriptionInputs :
             x.patient_id = 1 /\ x.duration_days = 10
  IN <<NewPrescription(1, p, 0, unwrap(add_days(0, 10 + GraceDays))),
       NewPrescription(2, [p EXCEPT !.duration_days = 30], 0,
                       unwrap(add_days(0, 30 + GraceDays)))>>

Init ==
  /\ patients = InitialPatients
  /\ appointments = InitialAppointments
  /\ prescriptions = InitialPrescriptions
  /\ seq = [patients |-> 2, appointments |-> 2, prescriptions |-> 2]
  /\ clock = 1
  /\ req = [r \in Requests |-> Idle]
  /\ nreq = 0

Next ==
  \/ \E r \in Requests, p \in CreatePatientInputs : create_patient_start(r, p)
  \/ \E r \in Requests : create_patient_insert(r)
  \/ \E r \in Requests : create_patient_reread(r)
  \/ \E r \in Requests : get_patients(r)
  \/ \E r \in Requests, id \in PatientIds : get_patient(r, id)
  \/ \E r \in Requests, id \in PatientIds, u \in UpdatePatientInputs :
       update_patient_start(r, id, u)
  \/ \E r \in Requests : update_patient_read(r)
  \/ \E r \in Requests : update_patient_write(r)
  \/ \E r \in Requests : update_patient_reread(r)
  \/ \E r \in Requests, id \in PatientIds : delete_patient(r, id)
  \/ \E r \in Requests, a \in CreateAppointmentInputs : create_appointment_start(r, a)
  \/ \E r \in Requests : create_appointment_insert(r)
  \/ \E r \in Requests : create_appointment_reread(r)
  \/ \E r \in Requests : get_appointments(r)
  \/ \E r \in Requests, id \in AppointmentIds : get_appointment(r, id)
  \/ \E r \in Requests, id \in AppointmentIds, u \in UpdateAppointmentInputs :
       update_appointment_start(r, id, u)
  \/ \E r \in Requests : update_appointment_read(r)
  \/ \E r \in Requests : update_appointment_write(r)
  \/ \E r \in Requests : update_appointment_reread(r)
  \/ \E r \in Requests, id \in AppointmentIds : delete_appointment(r, id)
  \/ \E r \in Requests, p \in CreatePrescriptionInputs : create_prescription_start(r, p)
  \/ \E r \in Requests : create_prescription_insert(r)
  \/ \E r \in Requests : create_prescription_reread(r)
  \/ \E r \in Requests : get_prescriptions(r)
  \/ \E r \in Requests, id \in PrescriptionIds : get_prescription(r, id)
  \/ \E r \in Requests, id \in PrescriptionIds : delete_prescription(r, id)

Spec == Init /\ [][Next]_vars

(***************************************************************************)
(* Store faults.  Any statement can return Err for a reason that is not in  *)
(* the data (a store fault); the statement then has no effect on the        *)
(* tables, and the handler does with the Err what its code says: the match  *)
(* of a create maps it to 400, unwrap_or_default of a list replaces it by   *)
(* the empty Vec, and unwrap() panics.                                      *)
(***************************************************************************)
CreateOps == {"create_patient", "create_appointment", "create_prescription"}
ListOps == {"get_patients", "get_appointments", "get_prescriptions"}
GetOps == {"get_patient", "get_appointment", "get_prescription"}
DeleteOps == {"delete_patient", "delete_appointment", "delete_prescription"}

\* format!("Error creating ...: {}", e) of the Err arm of the create handlers
ErrorCreating(op, e) ==
  CASE op = "create_patient" -> <<"Error creating patient: ", e>>
    [] op = "create_appointment" -> <<"Error creating appointment: ", e>>
    [] op = "create_prescription" -> <<"Error creating prescription: ", e>>

\* The INSERT of a create returns a store fault: the Err arm answers 400.
insert_fault(r) ==
  /\ req[r].op \in CreateOps /\ req[r].pc = "insert"
  /\ req' = [req EXCEPT ![r].pc = "done", ![r].fault = TRUE,
                        ![r].resp = Some(BadRequest(ErrorCreating(req[r].op,
                                                                  "store fault")))]
  /\ UNCHANGED <<patients, appointments, prescriptions, seq, clock, nreq>>

\* A statement whose result the handler unwraps returns a store fault: the
\* re-read of a create, and the read, the UPDATE and the re-read of an update.
unwrap_fault(r) ==
  /\ req[r].pc \in {"read", "write", "reread"}
  /\ req' = [req EXCEPT ![r].pc = "panicked", ![r].fault = TRUE]
  /\ UNCHANGED <<patients, appointments, prescriptions, seq, clock, nreq>>

\* Variant: the handler matches on the result and answers the Err with a 500
\* envelope.
list_fault_propagates(r, op) ==
  /\ Free(r)
  /\ req' = [req EXCEPT ![r] =
       [Idle EXCEPT !.op = op, !.fault = TRUE,
                    !.resp = Some(HttpResponse(500,
                               Some(ApiResponse(FALSE, None, Some("store fault")))))]]
  /\ nreq' = nreq + 1
  /\ UNCHANGED <<patients, appointments, prescriptions, seq, clock>>

\* fetch_all(...).await.unwrap_or_default() on a store fault: the empty Vec.
list_fault(r, op) ==
  /\ Free(r)
  /\ req' = [req EXCEPT ![r] = [Idle EXCEPT !.op = op, !.fault = TRUE,
                                            !.resp = Some(OkList(<<>>))]]
  /\ nreq' = nreq + 1
  /\ UNCHANGED <<patients, appointments, prescriptions, seq, clock>>

\* fetch_optional(...).await.unwrap() of a get on a store fault.
get_fault(r, op, id) ==
  /\ Free(r)
  /\ req' = [req EXCEPT ![r] = [Idle EXCEPT !.op = op, !.id = id, !.fault = TRUE,
                                            !.pc = "panicked"]]
  /\ nreq' = nreq + 1
  /\ UNCHANGED <<patients, appointments, prescriptions, seq, clock>>

\* execute(...).await.unwrap() of a delete on a store fault: no row is removed.
delete_fault(r, op, id) ==
  /\ Free(r)
  /\ req' = [req EXCEPT ![r] = [Idle EXCEPT !.op = op, !.id = id, !.fault = TRUE,
                                            !.pc = "panicked"]]
  /\ nreq' = nreq + 1
  /\ UNCHANGED <<patients, appointments, prescriptions, seq, clock>>

FaultNext ==
  \/ Next
  \/ \E r \in Requests : insert_fault(r)
  \/ \E r \in Requests : unwrap_fault(r)
  \/ \E r \in Requests, op \in ListOps : list_fault(r, op)
  \/ \E r \in Requests, op \in GetOps, id \in PatientIds : get_fault(r, op, id)
  \/ \E r \in Requests, op \in DeleteOps, id \in PatientIds : delete_fault(r, op, id)

FaultSpec == Init /\ [][FaultNext]_vars

\* The statement the request of slot r waits at completes or fails.
Completes(r) ==
  \/ create_patient_insert(r) \/ create_patient_reread(r)
  \/ update_patient_read(r) \/ update_patient_write(r) \/ update_patient_reread(r)
  \/ create_appointment_insert(r) \/ create_appointment_reread(r)
  \/ update_appointment_read(r) \/ update_appointment_write(r)
  \/ update_appointment_reread(r)
  \/ create_prescription_insert(r) \/ create_prescription_reread(r)
  \/ insert_fault(r) \/ unwrap_fault(r)

\* Every store call eventually completes or fails (the runtime polls every
\* handler future whose statement has a result).
LiveSpec == FaultSpec /\ \A r \in Requests : WF_vars(Completes(r))

(***************************************************************************)
(* Properties.  A step is named by what it does to req: Accepts(r, op) is  *)
(* the step in which slot r takes a new request of handler op, and         *)
(* Leaves(r, op, pc) the step in which the request of slot r executes the  *)
(* statement it was waiting at.                                            *)
(***************************************************************************)
Accepts(r, op) ==
  /\ nreq' = nreq + 1
  /\ Ended(r)
  /\ \A q \in Requests : q < r => ~Ended(q)
  /\ req'[r].op = op

Leaves(r, op, pc) == req[r].op = op /\ req[r].pc = pc /\ req'[r].pc # pc

Body(r) == req[r].resp[1].body[1]

Responded(r, op, status) ==
  /\ req[r].op = op
  /\ req[r].pc = "done"
  /\ req[r].resp # <<>>
  /\ req[r].resp[1].status = status

\* A client-error or not-found envelope: success = false, no payload, a message.
IsFailure(resp, status) ==
  /\ resp.status = status
  /\ resp.body # <<>>
  /\ resp.body[1].success = FALSE
  /\ resp.body[1].data = <<>>
  /\ resp.body[1].message # <<>>

OwnedBy(rows, id) == {i \in DOMAIN rows : rows[i].patient_id = id}

\* C1: the delete of an existing patient removes, in that one step, the
\* patient row and every appointment and prescription whose patient_id is
\* its id, whatever their number; a get of the patient or of any of those
\* rows on the state after the step finds nothing and answers 404; and the
\* rows of the other patients are as before.
C1_DeletePatientCascades ==
  [][\A r \in Requests :
       (Accepts(r, "delete_patient") /\ req'[r].id \in DOMAIN patients) =>
         LET id == req'[r].id
         IN /\ DOMAIN patients' = DOMAIN patients \ {id}
            /\ DOMAIN appointments' = DOMAIN appointments \ OwnedBy(appointments, id)
            /\ DOMAIN prescriptions' = DOMAIN prescriptions \ OwnedBy(prescriptions, id)
            /\ IsFailure(GetResponse(fetch_optional(patients', id), "Patient not found"), 404)
            /\ \A i \in OwnedBy(appointments, id) :
                 IsFailure(GetResponse(fetch_optional(appointments', i),
                                       "Appointment not found"), 404)
            /\ \A i \in OwnedBy(prescriptions, id) :
                 IsFailure(GetResponse(fetch_optional(prescriptions', i),
                                       "Prescription not found"), 404)
            /\ \A i \in DOMAIN patients' : patients'[i] = patients[i]
            /\ \A i \in DOMAIN appointments' : appointments'[i] = appointments[i]
            /\ \A i \in DOMAIN prescriptions' : prescriptions'[i] = prescriptions[i]
    ]_vars

\* Patient 1, which owned one appointment and two prescriptions, was deleted:
\* none of its rows is left, and patient 2 and its appointment are.
C1_Witness ==
  \E r \in Requests :
    /\ Responded(r, "delete_patient", 204)
    /\ req[r].id = 1
    /\ DOMAIN patients = {2}
    /\ OwnedBy(appointments, 1) = {} /\ OwnedBy(prescriptions, 1) = {}
    /\ 2 \in DOMAIN appointments /\ appointments[2] = InitialAppointments[2]

\* C2: in every reachable state each appointment and each prescription has
\* the patient_id of a patient row that exists.
C2_ReferentialIntegrity ==
  /\ \A i \in DOMAIN appointments : appointments[i].patient_id \in DOMAIN patients
  /\ \A i \in DOMAIN prescriptions : prescriptions[i].patient_id \in DOMAIN patients

\* The race: a create of a dependent of patient 1 was accepted and has still
\* to run its INSERT, and the delete of patient 1 has taken effect.
C2_Witness ==
  \E r, q \in Requests :
    /\ req[r].op \in {"create_appointment", "create_prescription"}
    /\ req[r].pc = "insert"
    /\ req[r].body[1].patient_id = 1
    /\ Responded(q, "delete_patient", 204)
    /\ req[q].id = 1

SameEmail == {<<i, j>> \in (DOMAIN patients) \X (DOMAIN patients) :
                i # j /\ patients[i].email = patients[j].email}

\* C3: no two patient rows ever hold the same email, and the INSERT of a
\* create_patient whose email a row already holds ends the request with a
\* 400 envelope (success = false, no payload) and leaves the patients table
\* as it was, whichever requests ran before or run beside it.
C3_UniqueEmail ==
  [][/\ SameEmail = {} /\ SameEmail' = {}
     /\ \A r \in Requests :
          (/\ Leaves(r, "create_patient", "insert")
           /\ \E i \in DOMAIN patients : patients[i].email = req[r].body[1].email) =>
            /\ req'[r].pc = "done"
            /\ IsFailure(req'[r].resp[1], 400)
            /\ patients' = patients
            /\ seq' = seq
    ]_vars

\* Two creates with the same new email in flight together: the row of one is
\* stored and not yet re-read, the other has been refused.
C3_Witness ==
  \E r, q \in Requests :
    /\ req[r].op = "create_patient" /\ req[r].pc = "reread"
    /\ Responded(q, "create_patient", 400)
    /\ req[q].body = req[r].body
    /\ req[r].body[1].email = "cy@x.org"
    /\ Cardinality({i \in DOMAIN patients : patients[i].email = "cy@x.org"}) = 1

\* C4: the INSERT of a create_appointment whose patient_id is the id of no
\* patient row ends the request with a 400 envelope (success = false, no
\* payload) and leaves the appointments table as it was.
C4_AppointmentNeedsPatient ==
  [][\A r \in Requests :
       (/\ Leaves(r, "create_appointment", "insert")
        /\ req[r].body[1].patient_id \notin DOMAIN patients) =>
         /\ req'[r].pc = "done"
         /\ IsFailure(req'[r].resp[1], 400)
         /\ appointments' = appointments
         /\ seq' = seq
    ]_vars

C4_Witness ==
  \E r \in Requests :
    /\ Responded(r, "create_appointment", 400)
    /\ req[r].body[1].patient_id = 3
    /\ 3 \notin DOMAIN patients
    /\ appointments = InitialAppointments

PatientText == {"first_name", "last_name", "email", "phone"}
PatientOptional == {"address", "medical_history", "blood_type"}
PatientKept == {"id", "date_of_birth", "created_at"}
AppointmentValue == {"doctor_name", "appointment_date", "duration_minutes", "status", "reason"}
AppointmentOptional == {"notes"}
AppointmentKept == {"id", "patient_id", "created_at"}

\* The row a partial update is to leave: a supplied value of a required
\* column or of a nullable column replaces the old one, an absent one keeps it.
Merged(old, new, partial, required, optional, kept) ==
  /\ \A f \in required :
       new[f] = IF partial[f] # <<>> THEN partial[f][1] ELSE old[f]
  /\ \A f \in optional :
       new[f] = IF partial[f] # <<>> THEN partial[f] ELSE old[f]
  /\ \A f \in kept : new[f] = old[f]

\* The UPDATE, executed without error, of a request that found the row and
\* whose row no other request has written since.
WritesAlone(r, op, rows) ==
  /\ Leaves(r, op, "write")
  /\ req'[r].pc = "reread"
  /\ req[r].id \in DOMAIN rows
  /\ req[r].existing = <<rows[req[r].id]>>

\* C5: the UPDATE of an update_patient or update_appointment that runs
\* without interference stores, for each updatable column, the supplied
\* value when the partial supplies one (an empty string too) and the value
\* the row had before when it does not; the other columns but updated_at
\* keep their value.
C5_PartialUpdateMerge ==
  [][\A r \in Requests :
       /\ WritesAlone(r, "update_patient", patients) =>
            /\ req[r].id \in DOMAIN patients'
            /\ Merged(patients[req[r].id], patients'[req[r].id], req[r].body[1],
                      PatientText, PatientOptional, PatientKept)
       /\ WritesAlone(r, "update_appointment", appointments) =>
            /\ req[r].id \in DOMAIN appointments'
            /\ Merged(appointments[req[r].id], appointments'[req[r].id], req[r].body[1],
                      AppointmentValue, AppointmentOptional, AppointmentKept)
    ]_vars

\* Update(1, {phone}) answered 200: the phone is the supplied one and the
\* other columns of patient 1 are those it had; and an appointment updated
\* with empty strings for reason and notes and no duration_minutes holds the
\* empty strings and keeps its 45 minutes.
C5_Witness ==
  \E r, q \in Requests :
    /\ Responded(r, "update_patient", 200)
    /\ req[r].id = 1
    /\ req[r].body[1] = [NoPatientUpdates EXCEPT !.phone = <<"555-1111">>]
    /\ 1 \in DOMAIN patients
    /\ patients[1] = [InitialPatients[1] EXCEPT !.phone = "555-1111",
                                                !.updated_at = req[r].now]
    /\ Responded(q, "update_appointment", 200)
    /\ req[q].body[1].duration_minutes = <<>>
    /\ req[q].body[1].reason = <<"">> /\ req[q].body[1].notes = <<"">>
    /\ Body(q).data[1].duration_minutes = 45
    /\ Body(q).data[1].reason = "" /\ Body(q).data[1].notes = <<"">>

C7_ExpiryExact ==
  /\ \A r \in Requests :
       req[r].op = "create_prescription" =>
         /\ req[r].expiry # <<>>
         /\ req[r].expiry[1] = req[r].now + (req[r].body[1].duration_days + 90)
  /\ \A i \in DOMAIN prescriptions :
       prescriptions[i].expiry_date =
         prescriptions[i].issued_date + (prescriptions[i].duration_days + 90)

\* C8: no step changes a field of a prescription row that it leaves in the
\* table; a step that removes a prescription row is the delete of that
\* prescription or the delete of its patient; and a row that a step adds
\* has an id above every id the table has held, so that a row found under
\* an id is the row created under it.
C8_PrescriptionsWriteOnce ==
  [][/\ \A i \in DOMAIN prescriptions \cap DOMAIN prescriptions' :
          prescriptions'[i] = prescriptions[i]
     /\ \A i \in DOMAIN prescriptions \ DOMAIN prescriptions' :
          \E r \in Requests :
            \/ Accepts(r, "delete_prescription") /\ req'[r].id = i
            \/ Accepts(r, "delete_patient") /\ req'[r].id = prescriptions[i].patient_id
     /\ \A i \in DOMAIN prescriptions' \ DOMAIN prescriptions :
          /\ i > seq.prescriptions
          /\ \A j \in DOMAIN prescriptions : i > j
          /\ seq'.prescriptions = i
     /\ seq'.prescriptions >= seq.prescriptions
    ]_vars

\* A prescription was created for patient 1 and read back, an update of
\* patient 1 has since been answered 200, and the row is the one returned.
C8_Witness ==
  \E r, q \in Requests :
    /\ Responded(r, "create_prescription", 201)
    /\ Responded(q, "update_patient", 200)
    /\ req[q].now > req[r].now
    /\ req[q].id = 1
    /\ req[r].id \in DOMAIN prescriptions
    /\ prescriptions[req[r].id].patient_id = 1
    /\ prescriptions[req[r].id] = Body(r).data[1]

\* C9: a delete of an id that has no row, never created or already
\* deleted, answers 404 with success = false and leaves the three tables as
\* they were; a delete of an id that has a row answers 204 with no body.
C9_DeleteMissing ==
  [][\A r \in Requests :
       /\ \/ Accepts(r, "delete_patient") /\ req'[r].id \notin DOMAIN patients
          \/ Accepts(r, "delete_appointment") /\ req'[r].id \notin DOMAIN appointments
          \/ Accepts(r, "delete_prescription") /\ req'[r].id \notin DOMAIN prescriptions
          => /\ req'[r].pc = "done"
             /\ IsFailure(req'[r].resp[1], 404)
             /\ UNCHANGED <<patients, appointments, prescriptions>>
       /\ \/ Accepts(r, "delete_patient") /\ req'[r].id \in DOMAIN patients
          \/ Accepts(r, "delete_appointment") /\ req'[r].id \in DOMAIN appointments
          \/ Accepts(r, "delete_prescription") /\ req'[r].id \in DOMAIN prescriptions
          => /\ req'[r].pc = "done"
             /\ req'[r].resp = <<[status |-> 204, body |-> <<>>]>>
    ]_vars

\* Prescription 1, a row of the initial store, is deleted, and a later delete
\* of the same id has answered 404; the other rows are those of the initial
\* store.
C9_Witness ==
  \E r \in Requests :
    /\ Responded(r, "delete_prescription", 404) /\ req[r].id = 1
    /\ 1 \in DOMAIN InitialPrescriptions
    /\ nreq = 2
    /\ DOMAIN prescriptions = {2} /\ prescriptions[2] = InitialPrescriptions[2]
    /\ patients = InitialPatients /\ appointments = InitialAppointments

C11_UpdateMissing ==
  [][\A r \in Requests :
       /\ (Leaves(r, "update_patient", "read") /\ req[r].id \notin DOMAIN patients) =>
            /\ req'[r].pc = "done"
            /\ IsFailure(req'[r].resp[1], 404)
            /\ UNCHANGED <<patients, appointments, prescriptions, seq>>
       /\ (Leaves(r, "update_appointment", "read")
             /\ req[r].id \notin DOMAIN appointments) =>
            /\ req'[r].pc = "done"
            /\ IsFailure(req'[r].resp[1], 404)
            /\ UNCHANGED <<patients, appointments, prescriptions, seq>>
       /\ Leaves(r, "update_patient", "write") => DOMAIN patients' = DOMAIN patients
       /\ Leaves(r, "update_appointment", "write") =>
            DOMAIN appointments' = DOMAIN appointments
    ]_vars

\* An update of patient 3 and an update of appointment 3, ids that have no
\* row, have both answered 404, and the store is the initial one.
C11_Witness ==
  \E r, q \in Requests :
    /\ Responded(r, "update_patient", 404) /\ req[r].id = 3
    /\ req[r].body[1] # NoPatientUpdates
    /\ Responded(q, "update_appointment", 404) /\ req[q].id = 3
    /\ patients = InitialPatients /\ appointments = InitialAppointments
    /\ prescriptions = InitialPrescriptions

\* The row a request in flight works on is gone: the id of an update that
\* has passed its existence read, or of a create that has run its INSERT.
RowGone(r) ==
  \/ req[r].op \in {"update_patient", "create_patient"}
       /\ req[r].id \notin DOMAIN patients
  \/ req[r].op \in {"update_appointment", "create_appointment"}
       /\ req[r].id \notin DOMAIN appointments
  \/ req[r].op = "create_prescription" /\ req[r].id \notin DOMAIN prescriptions

\* C12 as stated: when the row of an update was deleted after its existence
\* read, or the row of a create after its INSERT, the statement that comes
\* upon the missing row does not end the request in a panic: the UPDATE
\* either ends it with a 404 envelope or goes on to the re-read, the re-read
\* ends it with a 404 envelope, and neither puts the row back.
C12_DeleteRaceNotFound ==
  [][\A r \in Requests :
       ((\/ Leaves(r, req[r].op, "write") \/ Leaves(r, req[r].op, "reread"))
          /\ RowGone(r)) =>
         /\ req'[r].pc # "panicked"
         /\ req'[r].pc = "done" => IsFailure(req'[r].resp[1], 404)
         /\ req[r].pc = "reread" => req'[r].pc = "done"
         /\ UNCHANGED <<patients, appointments, prescriptions>>
    ]_vars

\* C13 as stated: the UPDATE of an update_patient that supplies an email
\* held by another patient ends the request with a client-error envelope
\* (a 4xx status, success = false, no payload, a message) and leaves every
\* patient row as it was.
C13_UpdateEmailConflict ==
  [][\A r \in Requests :
       (/\ Leaves(r, "update_patient", "write")
        /\ req[r].id \in DOMAIN patients
        /\ req[r].body[1].email # <<>>
        /\ \E j \in DOMAIN patients \ {req[r].id} :
             patients[j].email = req[r].body[1].email[1]) =>
         /\ req'[r].pc = "done"
         /\ req'[r].resp # <<>>
         /\ \E status \in 400 .. 499 : IsFailure(req'[r].resp[1], status)
         /\ patients' = patients
    ]_vars

\* The response of a request that succeeded: 204 with no body, or an
\* envelope with success = true.
IsSuccess(resp) ==
  \/ resp.status = 204 /\ resp.body = <<>>
  \/ resp.status \in {200, 201} /\ resp.body # <<>> /\ resp.body[1].success = TRUE

\* C14 as stated: every request that has ended after issuing a store call,
\* whatever the outcome of its store calls (a row, no row, a constraint
\* violation, a store fault), has ended with a response, and a response that
\* is not a success is an envelope with success = false, no payload and a
\* message.
C14_FailuresAreEnveloped ==
  \A r \in Requests :
    (/\ req[r].op # "none"
     /\ Ended(r)
     /\ ~(req[r].op = "create_prescription" /\ req[r].expiry = <<>>)) =>
      /\ req[r].pc = "done"
      /\ req[r].resp # <<>>
      /\ \/ IsSuccess(req[r].resp[1])
         \/ \E status \in 400 .. 599 : IsFailure(req[r].resp[1], status)

\* The table a list handler reads.
Listed(op) ==
  CASE op = "get_patients" -> patients
    [] op = "get_appointments" -> appointments
    [] op = "get_prescriptions" -> prescriptions

\* C15: every list request, of each of the three resources, ends in the
\* step that accepts it with status 200, success = true and a collection;
\* the collection is empty when the store read failed and when the table is
\* empty; and the step changes no table.
C15_ListNeverFails ==
  [][\A r \in Requests : \A op \in ListOps :
       Accepts(r, op) =>
         /\ req'[r].pc = "done"
         /\ req'[r].resp # <<>>
         /\ req'[r].resp[1].status = 200
         /\ req'[r].resp[1].body # <<>>
         /\ req'[r].resp[1].body[1].success = TRUE
         /\ req'[r].resp[1].body[1].data # <<>>
         /\ req'[r].fault => req'[r].resp[1].body[1].data[1] = <<>>
         /\ DOMAIN Listed(op) = {} => req'[r].resp[1].body[1].data[1] = <<>>
         /\ UNCHANGED <<patients, appointments, prescriptions, seq>>
    ]_vars

\* The read of a get_patients failed on a store that holds two patients:
\* the request has answered 200 with success = true and the empty list.
C15_Witness ==
  \E r \in Requests :
    /\ Responded(r, "get_patients", 200)
    /\ req[r].fault
    /\ patients = InitialPatients
    /\ Body(r).success = TRUE
    /\ Body(r).data = <<(<<>>)>>

\* Patient 1, who owned every prescription, was deleted, and a
\* get_prescriptions whose read succeeded on the empty table has answered
\* 200 with success = true and the empty list.
C15_EmptyTable ==
  \E r \in Requests :
    /\ Responded(r, "get_prescriptions", 200)
    /\ ~req[r].fault
    /\ DOMAIN prescriptions = {} /\ 1 \notin DOMAIN patients
    /\ Body(r).success = TRUE
    /\ Body(r).data = <<(<<>>)>>

\* The sort key of a row in the list of a resource.
SortKey(op, row) ==
  CASE op = "get_patients" -> row.created_at
    [] op = "get_appointments" -> Collate(row.appointment_date)
    [] op = "get_prescriptions" -> row.issued_date

\* C16: the collection a list request returns when its read succeeds has
\* one entry for each row the table holds at that step and no other entry,
\* each entry being the stored row, and its entries are in descending order
\* of the sort key of the resource (created_at, appointment_date,
\* issued_date); the step changes no table.
C16_ListComplete ==
  [][\A r \in Requests : \A op \in ListOps :
       (Accepts(r, op) /\ ~req'[r].fault) =>
         LET s == req'[r].resp[1].body[1].data[1]
             rows == Listed(op)
         IN /\ Len(s) = Cardinality(DOMAIN rows)
            /\ \A i \in DOMAIN rows :
                 Cardinality({k \in 1 .. Len(s) : s[k] = rows[i]}) = 1
            /\ \A k \in 1 .. Len(s) : s[k].id \in DOMAIN rows /\ s[k] = rows[s[k].id]
            /\ \A k, l \in 1 .. Len(s) : k < l => SortKey(op, s[k]) >= SortKey(op, s[l])
            /\ UNCHANGED <<patients, appointments, prescriptions, seq>>
    ]_vars

\* A patient was created after the two of the initial store, and a
\* get_patients has answered with the three rows, the new one first.
C16_Witness ==
  \E r \in Requests :
    /\ Responded(r, "get_patients", 200)
    /\ DOMAIN patients = {1, 2, 3}
    /\ Len(Body(r).data[1]) = 3
    /\ Body(r).data[1][1] = patients[3]
    /\ patients[3].created_at > patients[1].created_at
    /\ {Body(r).data[1][2], Body(r).data[1][3]} = {patients[1], patients[2]}

\* C17: a step leaves the id, the patient_id and the created_at of every
\* appointment row it keeps as they were; a row it adds is the row of a
\* create_appointment, with the patient_id of that request, under an id
\* above every id the table has held; so an appointment has, as long as its
\* row exists, the patient_id it was created with.
C17_AppointmentOwnerFixed ==
  [][/\ \A i \in DOMAIN appointments \cap DOMAIN appointments' :
          /\ appointments'[i].patient_id = appointments[i].patient_id
          /\ appointments'[i].id = appointments[i].id
          /\ appointments'[i].created_at = appointments[i].created_at
     /\ \A i \in DOMAIN appointments' \ DOMAIN appointments :
          /\ i > seq.appointments
          /\ seq'.appointments = i
          /\ \E r \in Requests :
               /\ Leaves(r, "create_appointment", "insert")
               /\ req'[r].id = i
               /\ appointments'[i].id = i
               /\ appointments'[i].patient_id = req[r].body[1].patient_id
     /\ seq'.appointments >= seq.appointments
     /\ \A i \in DOMAIN appointments : i <= seq.appointments /\ appointments[i].id = i
    ]_vars

\* Two updates of appointment 1 have answered 200, one supplying a status
\* and a duration and one a date, a reason and notes: the row holds new
\* values and is still the appointment of patient 1 created at instant 0.
C17_Witness ==
  \E r, q \in Requests :
    /\ Responded(r, "update_appointment", 200) /\ req[r].id = 1
    /\ Responded(q, "update_appointment", 200) /\ req[q].id = 1
    /\ req[r].body[1].status = <<"completed">>
    /\ req[q].body[1].appointment_date = <<"2027-02-01">>
    /\ 1 \in DOMAIN appointments
    /\ appointments[1] # InitialAppointments[1]
    /\ appointments[1].updated_at > 0
    /\ appointments[1].patient_id = InitialAppointments[1].patient_id
    /\ appointments[1].created_at = 0
    /\ Body(r).data[1].patient_id = 1 /\ Body(q).data[1].patient_id = 1

\* C18: a row a step adds to appointments has status "scheduled", whatever
\* the request; the existence read of an update keeps the row it found; the
\* UPDATE of an update that supplies a status stores that status, whatever
\* string it is; and a step that changes the status of a row is the UPDATE
\* of an update of that row, which stores the status it supplies or, when
\* it supplies none, the status its existence read found.  So a status
\* other than "scheduled" was first supplied by an update.
C18_StatusScheduledAtCreation ==
  [][/\ \A i \in DOMAIN appointments' \ DOMAIN appointments :
          appointments'[i].status = "scheduled"
     /\ \A r \in Requests :
          /\ (Leaves(r, "update_appointment", "read") /\ req'[r].pc = "write") =>
               /\ req[r].id \in DOMAIN appointments
               /\ req'[r].existing = <<appointments[req[r].id]>>
          /\ (/\ Leaves(r, "update_appointment", "write")
              /\ req[r].id \in DOMAIN appointments
              /\ req[r].body[1].status # <<>>) =>
               /\ req[r].id \in DOMAIN appointments'
               /\ appointments'[req[r].id].status = req[r].body[1].status[1]
     /\ \A i \in DOMAIN appointments \cap DOMAIN appointments' :
          appointments'[i].status # appointments[i].status =>
            \E r \in Requests :
              /\ Leaves(r, "update_appointment", "write")
              /\ req[r].id = i
              /\ appointments'[i].status =
                   IF req[r].body[1].status # <<>> THEN req[r].body[1].status[1]
                   ELSE req[r].existing[1].status
    ]_vars

\* An appointment has just been inserted and not yet re-read, with status
\* "scheduled", and an update of appointment 1 that supplied the status
\* "completed" has answered 200 with that status, which the row holds.
C18_Witness ==
  \E r, q \in Requests :
    /\ req[r].op = "create_appointment" /\ req[r].pc = "reread"
    /\ req[r].id \in DOMAIN appointments
    /\ appointments[req[r].id].status = "scheduled"
    /\ Responded(q, "update_appointment", 200) /\ req[q].id = 1
    /\ req[q].body[1].status = <<"completed">>
    /\ Body(q).data[1].status = "completed"
    /\ 1 \in DOMAIN appointments /\ appointments[1].status = "completed"

\* The place of a pc in a handler: the statements of a handler are its
\* existence read (1), its INSERT or UPDATE (2) and its re-read (3).
Rank(pc) ==
  CASE pc = "read" -> 1
    [] pc \in {"insert", "write"} -> 2
    [] pc = "reread" -> 3
    [] pc \in {"done", "panicked"} -> 4

\* A step of a request in flight takes it to a later statement or ends it:
\* no statement is issued twice, and a request issues at most three.
Advances ==
  \A r \in Requests :
    (~Ended(r) /\ req'[r] # req[r]) =>
      /\ req'[r].op = req[r].op
      /\ Rank(req'[r].pc) > Rank(req[r].pc)

\* C19 as stated: when every store call completes or fails, every request
\* in flight eventually ends; a request that has ended after issuing a
\* store call has a result; and a request issues each of its at most three
\* statements once, a failure of any of them ending the request.
C19_EndsWithResult ==
  /\ \A r \in Requests : (~Ended(r)) ~> Ended(r)
  /\ [](\A r \in Requests :
         (/\ Ended(r) /\ req[r].op # "none"
          /\ ~(req[r].op = "create_prescription" /\ req[r].expiry = <<>>)) =>
           req[r].resp # <<>>)
  /\ [][Advances]_vars

\* C19, termination alone: every request in flight eventually ends, with a
\* response or in a panic, after issuing each of its at most three
\* statements at most once; a store fault at a statement ends the request.
C19_Terminates ==
  /\ \A r \in Requests : (~Ended(r)) ~> Ended(r)
  /\ [][Advances]_vars
  /\ [][\A r \in Requests : (~Ended(r) /\ req'[r].fault) => Ended(r)']_vars

\* The partials of two updates supply no field in common.
Disjoint(u, v) == \A f \in DOMAIN u : u[f] = <<>> \/ v[f] = <<>>

\* The row holds every value the partial supplies.
Holds(row, partial, required, optional) ==
  /\ \A f \in required : partial[f] # <<>> => row[f] = partial[f][1]
  /\ \A f \in optional : partial[f] # <<>> => row[f] = partial[f]

\* C20 as stated: when two updates of the same patient, or of the same
\* appointment, that each supply some field and supply no field in common
\* have both answered 200, however their reads and writes interleaved, the
\* row holds the values both supplied.
C20_ConcurrentUpdatesBothPersist ==
  \A r, q \in Requests :
    (/\ r # q
     /\ req[r].op = req[q].op /\ req[r].id = req[q].id
     /\ req[r].resp # <<>> /\ req[q].resp # <<>>
     /\ req[r].resp[1].status = 200 /\ req[q].resp[1].status = 200
     /\ req[r].body[1] \notin {NoPatientUpdates, NoAppointmentUpdates}
     /\ req[q].body[1] \notin {NoPatientUpdates, NoAppointmentUpdates}) =>
      /\ (/\ req[r].op = "update_patient"
          /\ Disjoint(req[r].body[1], req[q].body[1])
          /\ req[r].id \in DOMAIN patients) =>
           Holds(patients[req[r].id], req[r].body[1], PatientText, PatientOptional)
      /\ (/\ req[r].op = "update_appointment"
          /\ Disjoint(req[r].body[1], req[q].body[1])
          /\ req[r].id \in DOMAIN appointments) =>
           Holds(appointments[req[r].id], req[r].body[1],
                 AppointmentValue, AppointmentOptional)

\* C20 as amended: the UPDATE of an update that executes on an existing row
\* stores, for each updatable column, the value the partial supplies and,
\* for a column it omits, the value its own existence read returned,
\* whatever the row holds when the UPDATE runs: the value another update
\* wrote to that column after that read is overwritten.
C20_UpdateWritesItsRead ==
  [][\A r \in Requests :
       /\ (/\ Leaves(r, "update_patient", "write")
           /\ req'[r].pc = "reread"
           /\ req[r].id \in DOMAIN patients) =>
            /\ req[r].id \in DOMAIN patients'
            /\ Merged(req[r].existing[1], patients'[req[r].id], req[r].body[1],
                      PatientText, PatientOptional, {})
            /\ \A f \in PatientKept :
                 patients'[req[r].id][f] = patients[req[r].id][f]
       /\ (/\ Leaves(r, "update_appointment", "write")
           /\ req[r].id \in DOMAIN appointments) =>
            /\ req[r].id \in DOMAIN appointments'
            /\ Merged(req[r].existing[1], appointments'[req[r].id], req[r].body[1],
                      AppointmentValue, AppointmentOptional, {})
            /\ \A f \in AppointmentKept :
                 appointments'[req[r].id][f] = appointments[req[r].id][f]
    ]_vars

\* Two updates of appointment 1, one supplying status and duration and one
\* date, reason and notes, read the row before either wrote: both have
\* answered 200, the first with status "completed", and the row, written
\* last by the second, has the date of the second and is back at status
\* "scheduled" and 45 minutes.
C20_Witness ==
  \E r, q \in Requests :
    /\ Responded(r, "update_appointment", 200) /\ req[r].id = 1
    /\ Responded(q, "update_appointment", 200) /\ req[q].id = 1
    /\ req[r].body[1].status = <<"completed">>
    /\ req[q].body[1].appointment_date = <<"2027-02-01">>
    /\ Disjoint(req[r].body[1], req[q].body[1])
    /\ req[q].existing = <<InitialAppointments[1]>>
    /\ Body(r).data[1].status = "completed"
    /\ 1 \in DOMAIN appointments
    /\ appointments[1].appointment_date = "2027-02-01"
    /\ appointments[1].status = "scheduled"
    /\ appointments[1].duration_minutes = 45

\* The timestamps of the rows of a table are monotone over a step: every row
\* has updated_at >= created_at, before and after, and a row the step keeps
\* has the created_at it had and an updated_at no smaller than it had.
Monotone(old, new) ==
  /\ \A i \in DOMAIN old : old[i].updated_at >= old[i].created_at
  /\ \A i \in DOMAIN new : new[i].updated_at >= new[i].created_at
  /\ \A i \in DOMAIN old \cap DOMAIN new :
       /\ new[i].created_at = old[i].created_at
       /\ new[i].updated_at >= old[i].updated_at

\* C21 as stated: for every patient and appointment row, created_at never
\* changes, updated_at >= created_at in every reachable state, and
\* updated_at never decreases, over every step of every interleaving.
C21_TimestampsMonotone ==
  [][Monotone(patients, patients') /\ Monotone(appointments, appointments')]_vars

\* The timestamps a step writes to a table: a row it keeps has the
\* created_at it had; a row it adds has created_at = updated_at = the
\* instant the creating request read at its start; the UPDATE of an update
\* that executes on an existing row sets updated_at to the instant that
\* update read at its start, which is no smaller than the row's updated_at
\* or created_at when the request started after the row was last written
\* or created; and nothing else changes updated_at.
Stamps(old, new, create, update) ==
  /\ \A i \in DOMAIN old \cap DOMAIN new : new[i].created_at = old[i].created_at
  /\ \A i \in DOMAIN new \ DOMAIN old :
       \E r \in Requests :
         /\ Leaves(r, create, "insert")
         /\ req'[r].id = i
         /\ new[i].created_at = req[r].now
         /\ new[i].updated_at = req[r].now
  /\ \A r \in Requests :
       (/\ Leaves(r, update, "write") /\ req'[r].pc = "reread"
        /\ req[r].id \in DOMAIN old) =>
         /\ req[r].id \in DOMAIN new
         /\ new[req[r].id].updated_at = req[r].now
         /\ req[r].now >= old[req[r].id].updated_at =>
              new[req[r].id].updated_at >= old[req[r].id].updated_at
         /\ req[r].now >= old[req[r].id].created_at =>
              new[req[r].id].updated_at >= new[req[r].id].created_at
  /\ \A i \in DOMAIN old \cap DOMAIN new :
       new[i].updated_at # old[i].updated_at =>
         \E r \in Requests : Leaves(r, update, "write") /\ req[r].id = i

\* C21 as amended: created_at never changes after creation, a created row
\* has updated_at = created_at, and each update sets updated_at to the
\* instant it captured at its start, before its existence read and its
\* write; so updated_at >= created_at and updated_at does not decrease
\* when the writes to a row happen in the order in which their requests
\* started, and not otherwise.
C21_TimestampsAreRequestInstants ==
  [][/\ Stamps(patients, patients', "create_patient", "update_patient")
     /\ Stamps(appointments, appointments', "create_appointment", "update_appointment")
    ]_vars

\* An update of id 3 was accepted at instant 1, before patient 3 existed; a
\* create accepted at instant 2 then stored patient 3, and the update found
\* it and wrote it: both have answered, and the row has created_at = 2 and
\* updated_at = 1.
C21_Witness ==
  \E r, q \in Requests :
    /\ Responded(r, "update_patient", 200) /\ req[r].id = 3 /\ req[r].now = 1
    /\ Responded(q, "create_patient", 201) /\ req[q].id = 3 /\ req[q].now = 2
    /\ Body(q).data[1].updated_at = 2
    /\ 3 \in DOMAIN patients
    /\ patients[3].created_at = 2
    /\ patients[3].updated_at = 1

\* The ids of table t over a step: no row has an id above the largest id
\* the table has assigned; that largest id never decreases, and a step that
\* only removes rows leaves it as it was; the INSERT of a create that
\* stores a row stores it under an id above it, so above the id of every
\* row the table holds or has held, which becomes the largest id assigned;
\* and a row is added by such an INSERT only.
FreshIds(old, new, t, create) ==
  /\ \A j \in DOMAIN old : j <= seq[t]
  /\ seq'[t] >= seq[t]
  /\ DOMAIN new \subseteq DOMAIN old => seq'[t] = seq[t]
  /\ \A r \in Requests :
       (Leaves(r, create, "insert") /\ req'[r].pc = "reread") =>
         /\ req'[r].id > seq[t]
         /\ \A j \in DOMAIN old : req'[r].id > j
         /\ DOMAIN new = DOMAIN old \cup {req'[r].id}
         /\ new[req'[r].id].id = req'[r].id
         /\ seq'[t] = req'[r].id
         /\ \A j \in DOMAIN old : new[j] = old[j]
  /\ \A i \in DOMAIN new \ DOMAIN old :
       \E r \in Requests : Leaves(r, create, "insert") /\ req'[r].id = i
  /\ \A r \in Requests :
       (Leaves(r, create, "reread") /\ req'[r].pc = "done") =>
         req'[r].resp[1].body[1].data[1].id = req[r].id

\* C22: in each of the three tables every create that stores a row stores
\* it under an id strictly greater than every id the table assigned
\* before, the ids of deleted rows included, and answers with that id; so
\* an id never comes to name a row created later.
C22_IdsNeverReused ==
  [][/\ FreshIds(patients, patients', "patients", "create_patient")
     /\ FreshIds(appointments, appointments', "appointments", "create_appointment")
     /\ FreshIds(prescriptions, prescriptions', "prescriptions", "create_prescription")
    ]_vars

\* Appointment 1 was deleted, leaving appointment 2 alone in the table, and
\* an appointment created after that (the second request, in the slot the
\* delete had used) has answered 201 with id 3.
C22_Witness ==
  \E r \in Requests :
    /\ Responded(r, "create_appointment", 201)
    /\ nreq = 2
    /\ \A q \in Requests \ {r} : req[q].op = "none"
    /\ DOMAIN appointments = {2, 3}
    /\ 1 \in DOMAIN InitialAppointments
    /\ Body(r).data[1].id = 3
    /\ appointments[3] = Body(r).data[1]
    /\ seq.appointments = 3

====
